---- MODULE Spec2Model ----
(***************************************************************************)
(* Cart / order core of the shop backend (app/services/order_service.py,   *)
(* app/services/product_service.py) over the relational tables declared    *)
(* in app/models.  Every request runs in its own database session          *)
(* (app/database.py get_db); a session sees only committed rows, and what  *)
(* it writes becomes visible to the others at its commit.                  *)
(*                                                                         *)
(* Spec runs the requests one at a time, each handler as one action.       *)
(* ConcSpec runs add_to_cart and create_order_from_cart in concurrent      *)
(* sessions, split at the queries they issue before their commit, so that  *)
(* the requests of different sessions interleave there.                    *)
(***************************************************************************)
EXTENDS Integers, Sequences, FiniteSets, TLC

\* ---------------------------------------------------------------- bounds
MaxPrice == 2
MaxQty == 2
MaxCartId == 3
MaxOrders == 2
MaxRequests == 5
MaxTime == 1
MaxApiRequests == 2
MaxTotal == 4
ListedTotal == 25
MaxPage == 3
MaxSize == 3
ListedSize == 10
MaxListPrice == 5

Users == {"u1", "u2"}
Products == {"p1", "p2"}
Sessions == {"s1", "s2"}
Prices == 1..MaxPrice
\* The quantity field validated with ge=0 instead of ge=1.
QuantitiesFromZero == {0, 1}

\* A request body carries the smallest quantity the schema admits (ge=1);
\* larger quantities of a cart line come from repeated adds, up to MaxQty.
Quantities == {1}
CartIds == 1..MaxCartId
OrderIds == 1..MaxOrders
Times == 0..MaxTime

\* ------------------------------------------------------- program values
NULL == "null"
UNSET == "unset"

PENDING == "pending"
CONFIRMED == "confirmed"
SHIPPED == "shipped"
DELIVERED == "delivered"
CANCELLED == "cancelled"
OrderStatusEnum == {PENDING, CONFIRMED, SHIPPED, DELIVERED, CANCELLED}

HTTP_200_OK == 200
HTTP_201_CREATED == 201
HTTP_204_NO_CONTENT == 204
HTTP_400_BAD_REQUEST == 400
HTTP_401_UNAUTHORIZED == 401
HTTP_403_FORBIDDEN == 403
HTTP_404_NOT_FOUND == 404
HTTP_422_UNPROCESSABLE_ENTITY == 422
HTTP_500_INTERNAL_SERVER_ERROR == 500

\* Python's None where the value is otherwise a record.
None == [none |-> TRUE]

\* settings.ACCESS_TOKEN_EXPIRE_MINUTES and settings.SECRET_KEY; OTHER_KEY is
\* any key that is not the server's.
ACCESS_TOKEN_EXPIRE_MINUTES == 30
SECRET_KEY == "secret"
OTHER_KEY == "other"

\* Request bodies the handlers are driven with.
OrderCreate == {[delivery_address |-> "addr1", payment_method |-> NULL]}

OrderUpdateFields ==
    {"status", "payment_method", "payment_id", "delivery_address", "estimated_delivery"}

\* An OrderUpdate body: every field is optional; UNSET marks a field the
\* client did not send, NULL one it sent as null.
OrderUpdate ==
    { [status |-> st, payment_method |-> UNSET, payment_id |-> UNSET,
       delivery_address |-> UNSET, estimated_delivery |-> UNSET]
        : st \in OrderStatusEnum \cup {NULL} }
    \cup
    { [status |-> UNSET, payment_method |-> "card", payment_id |-> "pay1",
       delivery_address |-> "addr2", estimated_delivery |-> NULL],
      [status |-> UNSET, payment_method |-> UNSET, payment_id |-> UNSET,
       delivery_address |-> NULL, estimated_delivery |-> UNSET] }

\* ----------------------------------------------------------------- state
VARIABLES
    products,     \* table products: id -> price, for the rows that exist
    cart,         \* table cart: set of rows [id, user_id, product_id, quantity]
    cart_seq,     \* number of cart ids handed out so far (ids are never reused)
    orders,       \* table orders: sequence of rows, the id is the position
    order_items,  \* table order_items: sequence of rows [order_id, product_id, quantity, price]
    consumed,     \* history: for each order, the ids of the cart rows it was built from
    sess,         \* per session: the request in flight and its local variables
    resp,         \* the last completed request: [op, code, set_cookie]
    requests,     \* number of requests received so far
    users,        \* table users: id -> [email, username, password_hash, is_admin, is_active]
    now,          \* the clock, in minutes
    http_request, \* the last HTTP request received: its credentials and its number
    cookie_jar,   \* the client's access_token cookie, as the Set-Cookie headers left it
    listing       \* the product list request served, with its answer

vars == <<products, cart, cart_seq, orders, order_items, consumed, sess, resp, requests,
         users, now, http_request, cookie_jar, listing>>
db == <<products, cart, cart_seq, orders, order_items, consumed>>
auth == <<users, now, http_request, cookie_jar>>

Idle ==
    [pc |-> "idle", user_id |-> NULL, product_id |-> NULL, quantity |-> 0,
     existing_item |-> 0, cart_items |-> <<>>, idx |-> 0,
     order_items_data |-> <<>>, total_amount |-> 0, order_data |-> NULL]

\* The Set-Cookie header of a response: none, the access_token cookie set to
\* a value, or the access_token cookie deleted.
NoSetCookie == [action |-> "none", value |-> None]

Response(op, code) == [op |-> op, code |-> code, set_cookie |-> NoSetCookie]

\* The rows of table users when the service starts.
InitialUsers ==
    [u \in Users |->
        IF u = "u1"
        THEN [email |-> "alice@x.io", username |-> "alice",
              password_hash |-> [argon2 |-> "Passw0rd1"],
              is_admin |-> FALSE, is_active |-> TRUE]
        ELSE [email |-> "bob@x.io", username |-> "bob",
              password_hash |-> [argon2 |-> "Passw0rd2"],
              is_admin |-> FALSE, is_active |-> FALSE]]

\* ------------------------------------------------------------- helpers
RECURSIVE SumSeq(_)
SumSeq(q) == IF q = <<>> THEN 0 ELSE Head(q) + SumSeq(Tail(q))

\* All orderings of a finite set of rows: a query without ORDER BY.
RECURSIVE Orderings(_)
Orderings(S) ==
    IF S = {} THEN {<<>>}
    ELSE UNION { { <<x>> \o t : t \in Orderings(S \ {x}) } : x \in S }

SeqToSet(q) == { q[i] : i \in 1..Len(q) }

\* db.query(Cart).filter(Cart.user_id == user_id)
CartOf(c, u) == { r \in c : r.user_id = u }

\* Variant: the cart line is looked up by its id alone.
CartItemOfAnyone(c, u, id) == { r \in c : r.id = id }

\* db.query(Cart).filter(Cart.id == item_id, Cart.user_id == user_id)
CartItemOf(c, u, id) == { r \in c : r.id = id /\ r.user_id = u }

\* Rows that reference a product through their product_id foreign key.
ProductReferenced(p) ==
    \/ \E r \in cart : r.product_id = p
    \/ \E i \in 1..Len(order_items) : order_items[i].product_id = p

\* A request is received.
Receive == requests < MaxRequests /\ requests' = requests + 1

\* Sessions whose request is at one of the given positions.
InFlight(pcs) == { s \in Sessions : sess[s].pc \in pcs }

\* ================================================================ cart
\* add_to_cart without the query for the product: the INSERT of a line for
\* a product that does not exist breaks the foreign key of cart.product_id.
add_to_cart_unchecked(u, p, q) ==
    /\ Receive
    /\ IF p \notin DOMAIN products
       THEN /\ resp' = Response("add_to_cart", HTTP_500_INTERNAL_SERVER_ERROR)
            /\ UNCHANGED <<cart, cart_seq>>
       ELSE LET found == { r \in cart : r.user_id = u /\ r.product_id = p }
            IN IF found # {}
               THEN \E existing_item \in found :
                       /\ existing_item.quantity + q <= MaxQty
                       /\ cart' = (cart \ {existing_item}) \cup
                             {[existing_item EXCEPT !.quantity = @ + q]}
                       /\ resp' = Response("add_to_cart", HTTP_200_OK)
                       /\ UNCHANGED cart_seq
               ELSE /\ cart_seq < MaxCartId
                    /\ cart' = cart \cup { [id |-> cart_seq + 1, user_id |-> u,
                                              product_id |-> p, quantity |-> q] }
                    /\ cart_seq' = cart_seq + 1
                    /\ resp' = Response("add_to_cart", HTTP_200_OK)
    /\ UNCHANGED <<products, orders, order_items, consumed, sess>>
    /\ UNCHANGED <<auth, listing>>

\* add_to_cart with the quantity of an existing line overwritten by the
\* request's quantity instead of increased by it.
add_to_cart_overwrite(u, p, q) ==
    /\ Receive
    /\ IF p \notin DOMAIN products
       THEN /\ resp' = Response("add_to_cart", HTTP_404_NOT_FOUND)
            /\ UNCHANGED <<cart, cart_seq>>
       ELSE LET found == { r \in cart : r.user_id = u /\ r.product_id = p }
            IN IF found # {}
               THEN \E existing_item \in found :
                       /\ existing_item.quantity + q <= MaxQty
                       /\ cart' = (cart \ {existing_item}) \cup
                             {[existing_item EXCEPT !.quantity = q]}
                       /\ resp' = Response("add_to_cart", HTTP_200_OK)
                       /\ UNCHANGED cart_seq
               ELSE /\ cart_seq < MaxCartId
                    /\ cart' = cart \cup { [id |-> cart_seq + 1, user_id |-> u,
                                              product_id |-> p, quantity |-> q] }
                    /\ cart_seq' = cart_seq + 1
                    /\ resp' = Response("add_to_cart", HTTP_200_OK)
    /\ UNCHANGED <<products, orders, order_items, consumed, sess>>
    /\ UNCHANGED <<auth, listing>>

\* add_to_cart (lines 64-121) as one request: the product must exist; the
\* line of (user, product) has its quantity increased, or a line is created.
add_to_cart(u, p, q) ==
    /\ Receive
    /\ IF p \notin DOMAIN products
       THEN /\ resp' = Response("add_to_cart", HTTP_404_NOT_FOUND)
            /\ UNCHANGED <<cart, cart_seq>>
       ELSE LET found == { r \in cart : r.user_id = u /\ r.product_id = p }
            IN IF found # {}
               THEN \E existing_item \in found :
                       /\ existing_item.quantity + q <= MaxQty
                       /\ cart' = (cart \ {existing_item}) \cup
                             {[existing_item EXCEPT !.quantity = @ + q]}
                       /\ resp' = Response("add_to_cart", HTTP_200_OK)
                       /\ UNCHANGED cart_seq
               ELSE /\ cart_seq < MaxCartId
                    /\ cart' = cart \cup { [id |-> cart_seq + 1, user_id |-> u,
                                              product_id |-> p, quantity |-> q] }
                    /\ cart_seq' = cart_seq + 1
                    /\ resp' = Response("add_to_cart", HTTP_200_OK)
    /\ UNCHANGED <<products, orders, order_items, consumed, sess>>
    /\ UNCHANGED <<auth, listing>>

\* add_to_cart in a concurrent session, first query: the product must exist
\* (lines 67-72).
add_to_cart_begin(s, u, p, q) ==
    /\ Receive
    /\ sess[s].pc = "idle"
    /\ cart_seq + Cardinality(InFlight({"add_find", "add_commit"})) < MaxCartId
    /\ IF p \notin DOMAIN products
       THEN /\ resp' = Response("add_to_cart", HTTP_404_NOT_FOUND)
            /\ UNCHANGED sess
       ELSE /\ sess' = [sess EXCEPT ![s] =
                    [Idle EXCEPT !.pc = "add_find", !.user_id = u,
                                 !.product_id = p, !.quantity = q]]
            /\ UNCHANGED resp
    /\ UNCHANGED db
    /\ UNCHANGED <<auth, listing>>

\* add_to_cart in a concurrent session, second query: the line of (user, product), if any, and the
\* quantity the handler computes from it (lines 75-84).
add_to_cart_find(s) ==
    /\ UNCHANGED requests
    /\ sess[s].pc = "add_find"
    /\ LET found == { r \in cart : r.user_id = sess[s].user_id
                                   /\ r.product_id = sess[s].product_id }
       IN IF found = {}
          THEN sess' = [sess EXCEPT ![s].pc = "add_commit", ![s].existing_item = 0]
          ELSE \E r \in found :
                  /\ r.quantity + sess[s].quantity <= MaxQty
                  /\ sess' = [sess EXCEPT ![s].pc = "add_commit",
                                          ![s].existing_item = r.id,
                                          ![s].quantity = r.quantity + sess[s].quantity]
    /\ UNCHANGED <<db, resp>>
    /\ UNCHANGED <<auth, listing>>

\* add_to_cart in a concurrent session, commit: UPDATE of the line found, or INSERT of a new one
\* (lines 85 and 101-108).  The UPDATE of a row deleted meanwhile and the
\* INSERT for a product deleted meanwhile fail and roll back.
add_to_cart_commit(s) ==
    /\ UNCHANGED requests
    /\ sess[s].pc = "add_commit"
    /\ sess' = [sess EXCEPT ![s] = Idle]
    /\ IF sess[s].existing_item # 0
       THEN IF \E r \in cart : r.id = sess[s].existing_item
            THEN /\ cart' = { IF r.id = sess[s].existing_item
                                THEN [r EXCEPT !.quantity = sess[s].quantity]
                                ELSE r : r \in cart }
                 /\ resp' = Response("add_to_cart", HTTP_200_OK)
                 /\ UNCHANGED cart_seq
            ELSE /\ resp' = Response("add_to_cart", HTTP_500_INTERNAL_SERVER_ERROR)
                 /\ UNCHANGED <<cart, cart_seq>>
       ELSE IF sess[s].product_id \in DOMAIN products
            THEN /\ cart' = cart \cup { [id |-> cart_seq + 1,
                                         user_id |-> sess[s].user_id,
                                         product_id |-> sess[s].product_id,
                                         quantity |-> sess[s].quantity] }
                 /\ cart_seq' = cart_seq + 1
                 /\ resp' = Response("add_to_cart", HTTP_200_OK)
            ELSE /\ resp' = Response("add_to_cart", HTTP_500_INTERNAL_SERVER_ERROR)
                 /\ UNCHANGED <<cart, cart_seq>>
    /\ UNCHANGED <<products, orders, order_items, consumed>>
    /\ UNCHANGED <<auth, listing>>

\* update_cart_item (lines 123-162): the line must belong to the user and
\* its product must exist; the quantity is overwritten.
update_cart_item(u, id, q) ==
    /\ Receive
    /\ IF CartItemOf(cart, u, id) = {}
       THEN /\ resp' = Response("update_cart_item", HTTP_404_NOT_FOUND)
            /\ UNCHANGED cart
       ELSE LET cart_item == CHOOSE r \in CartItemOf(cart, u, id) : TRUE
            IN IF cart_item.product_id \notin DOMAIN products
               THEN /\ resp' = Response("update_cart_item", HTTP_404_NOT_FOUND)
                    /\ UNCHANGED cart
               ELSE /\ cart' = (cart \ {cart_item})
                                  \cup {[cart_item EXCEPT !.quantity = q]}
                    /\ resp' = Response("update_cart_item", HTTP_200_OK)
    /\ UNCHANGED <<products, cart_seq, orders, order_items, consumed, sess>>
    /\ UNCHANGED <<auth, listing>>

\* remove_from_cart (lines 164-180).
remove_from_cart(u, id) ==
    /\ Receive
    /\ IF CartItemOf(cart, u, id) = {}
       THEN /\ resp' = Response("remove_from_cart", HTTP_404_NOT_FOUND)
            /\ UNCHANGED cart
       ELSE /\ cart' = cart \ CartItemOf(cart, u, id)
            /\ resp' = Response("remove_from_cart", HTTP_200_OK)
    /\ UNCHANGED <<products, cart_seq, orders, order_items, consumed, sess>>
    /\ UNCHANGED <<auth, listing>>

\* clear_cart (lines 182-190).
clear_cart(u) ==
    /\ Receive
    /\ cart' = cart \ CartOf(cart, u)
    /\ resp' = Response("clear_cart", HTTP_200_OK)
    /\ UNCHANGED <<products, cart_seq, orders, order_items, consumed, sess>>
    /\ UNCHANGED <<auth, listing>>

\* ============================================================ checkout
\* One entry of order_items_data (lines 218-222).
ItemData(cart_item, price) ==
    [product_id |-> cart_item.product_id, quantity |-> cart_item.quantity,
     price |-> price]

\* Variant: the line total without the quantity.
LineTotalNoQuantity(d) == d.price

\* item_total = product.price * cart_item.quantity (line 215).
LineTotal(d) == d.price * d.quantity

\* The Order row the handler builds (lines 225-232).
NewOrder(u, total_amount, order_data) ==
    [user_id |-> u,
     total_amount |-> total_amount,
     status |-> PENDING,
     payment_method |-> order_data.payment_method,
     payment_id |-> NULL,
     delivery_address |-> order_data.delivery_address,
     estimated_delivery |-> "in3days"]

\* The OrderItem rows the handler builds, one per entry (lines 239-247).
NewOrderItems(new_id, data) ==
    [i \in 1..Len(data) |->
        [order_id |-> new_id, product_id |-> data[i].product_id,
         quantity |-> data[i].quantity, price |-> data[i].price]]

\* Variant: no test for an empty cart.
NeverEmpty(rows) == FALSE

\* "if not cart_items" (line 197).
CartEmpty(rows) == rows = {}

\* Variant: the DELETE without its filter.
DeleteEveryLine(c, cart_items) == {}

\* The cart after the DELETE of the lines the handler read (lines 250-251).
DeleteRead(c, cart_items) ==
    { r \in c : r.id \notin { x.id : x \in SeqToSet(cart_items) } }

\* The writes of the handler, committed together (lines 234-253).
CommitOrder(u, cart_items, data, total_amount, order_data) ==
    /\ orders' = Append(orders, NewOrder(u, total_amount, order_data))
    /\ order_items' = order_items \o NewOrderItems(Len(orders) + 1, data)
    /\ cart' = DeleteRead(cart, cart_items)
    /\ consumed' = Append(consumed, { x.id : x \in SeqToSet(cart_items) })

\* create_order_from_cart (lines 192-257) as one request.
create_order_from_cart(u, order_data) ==
    /\ Receive
    /\ IF CartEmpty(CartOf(cart, u))
       THEN /\ resp' = Response("create_order_from_cart", HTTP_400_BAD_REQUEST)
            /\ UNCHANGED <<cart, orders, order_items, consumed>>
       ELSE \E cart_items \in Orderings(CartOf(cart, u)) :
               IF \E i \in 1..Len(cart_items) :
                      cart_items[i].product_id \notin DOMAIN products
               THEN /\ resp' = Response("create_order_from_cart", HTTP_404_NOT_FOUND)
                    /\ UNCHANGED <<cart, orders, order_items, consumed>>
               ELSE LET data == [i \in 1..Len(cart_items) |->
                                    ItemData(cart_items[i],
                                             products[cart_items[i].product_id])]
                        total_amount ==
                            SumSeq([i \in 1..Len(data) |-> LineTotal(data[i])])
                    IN /\ Len(orders) < MaxOrders
                       /\ CommitOrder(u, cart_items, data, total_amount, order_data)
                       /\ resp' = Response("create_order_from_cart", HTTP_200_OK)
    /\ UNCHANGED <<products, cart_seq, sess>>
    /\ UNCHANGED <<auth, listing>>

\* The Product object a query returns inside a session: the session keeps
\* one object per row, so a product already loaded for an earlier line of
\* the request keeps the price it was loaded with.
LoadedPrice(data, p) ==
    IF \E i \in 1..Len(data) : data[i].product_id = p
    THEN LET i == CHOOSE i \in 1..Len(data) : data[i].product_id = p
         IN data[i].price
    ELSE products[p]

\* create_order_from_cart in a concurrent session, first query: the cart
\* lines of the user; an empty cart is a 400 (lines 195-205).
create_order_from_cart_begin(s, u, order_data) ==
    /\ Receive
    /\ sess[s].pc = "idle"
    /\ IF CartEmpty(CartOf(cart, u))
       THEN /\ resp' = Response("create_order_from_cart", HTTP_400_BAD_REQUEST)
            /\ UNCHANGED sess
       ELSE /\ Len(orders) + Cardinality(InFlight({"co_lookup", "co_commit"})) < MaxOrders
            /\ \E cart_items \in Orderings(CartOf(cart, u)) :
                  sess' = [sess EXCEPT ![s] =
                      [Idle EXCEPT !.pc = "co_lookup", !.user_id = u,
                                   !.cart_items = cart_items, !.idx = 1,
                                   !.order_data = order_data]]
            /\ UNCHANGED resp
    /\ UNCHANGED db
    /\ UNCHANGED <<auth, listing>>

\* Variant: the cart lines already passed are deleted as the loop goes, so
\* a failed product query leaves the cart partly deleted.
create_order_from_cart_lookup_eager(s) ==
    /\ UNCHANGED requests
    /\ sess[s].pc = "co_lookup"
    /\ LET cart_item == sess[s].cart_items[sess[s].idx]
           passed == { sess[s].cart_items[i].id : i \in 1..(sess[s].idx - 1) }
       IN IF cart_item.product_id \notin DOMAIN products
          THEN /\ sess' = [sess EXCEPT ![s] = Idle]
               /\ resp' = Response("create_order_from_cart", HTTP_404_NOT_FOUND)
               /\ cart' = { r \in cart : r.id \notin passed }
          ELSE LET price == LoadedPrice(sess[s].order_items_data, cart_item.product_id)
               IN /\ sess' = [sess EXCEPT
                        ![s].total_amount = @ + LineTotal(ItemData(cart_item, price)),
                        ![s].order_items_data = Append(@, ItemData(cart_item, price)),
                        ![s].idx = @ + 1,
                        ![s].pc = IF sess[s].idx = Len(sess[s].cart_items)
                                  THEN "co_commit" ELSE "co_lookup"]
                  /\ UNCHANGED <<resp, cart>>
    /\ UNCHANGED <<products, cart_seq, orders, order_items, consumed>>
    /\ UNCHANGED <<auth, listing>>

\* create_order_from_cart in a concurrent session, one pass of the loop
\* over the cart lines: the product query of the line, a 404 when it finds
\* no row, else the line total added and the line's data kept (lines 207-222).
create_order_from_cart_lookup(s) ==
    /\ UNCHANGED requests
    /\ sess[s].pc = "co_lookup"
    /\ LET cart_item == sess[s].cart_items[sess[s].idx]
       IN IF cart_item.product_id \notin DOMAIN products
          THEN /\ sess' = [sess EXCEPT ![s] = Idle]
               /\ resp' = Response("create_order_from_cart", HTTP_404_NOT_FOUND)
          ELSE LET price == LoadedPrice(sess[s].order_items_data, cart_item.product_id)
               IN /\ sess' = [sess EXCEPT
                        ![s].total_amount = @ + LineTotal(ItemData(cart_item, price)),
                        ![s].order_items_data = Append(@, ItemData(cart_item, price)),
                        ![s].idx = @ + 1,
                        ![s].pc = IF sess[s].idx = Len(sess[s].cart_items)
                                  THEN "co_commit" ELSE "co_lookup"]
                  /\ UNCHANGED resp
    /\ UNCHANGED db
    /\ UNCHANGED <<auth, listing>>

\* create_order_from_cart in a concurrent session, the writes and the
\* commit (lines 225-253).  An order line whose product was deleted
\* meanwhile breaks its foreign key and the transaction rolls back.
create_order_from_cart_commit(s) ==
    /\ UNCHANGED requests
    /\ sess[s].pc = "co_commit"
    /\ sess' = [sess EXCEPT ![s] = Idle]
    /\ IF \E i \in 1..Len(sess[s].order_items_data) :
             sess[s].order_items_data[i].product_id \notin DOMAIN products
       THEN /\ resp' = Response("create_order_from_cart", HTTP_500_INTERNAL_SERVER_ERROR)
            /\ UNCHANGED <<cart, orders, order_items, consumed>>
       ELSE /\ CommitOrder(sess[s].user_id, sess[s].cart_items,
                           sess[s].order_items_data, sess[s].total_amount,
                           sess[s].order_data)
            /\ resp' = Response("create_order_from_cart", HTTP_200_OK)
    /\ UNCHANGED <<products, cart_seq>>
    /\ UNCHANGED <<auth, listing>>

\* ============================================================== orders
\* Variant: the order is looked up by its id alone.
OrderOfAnyone(u, o) == o \in 1..Len(orders)

\* db.query(Order).filter(Order.id == order_id, Order.user_id == user_id).first()
OrderOf(u, o) == o \in 1..Len(orders) /\ orders[o].user_id = u

\* model_dump(exclude_unset=True) followed by setattr for each field sent.
ApplyUpdate(order, update_data) ==
    [f \in DOMAIN order |->
        IF f \in OrderUpdateFields /\ update_data[f] # UNSET
        THEN update_data[f] ELSE order[f]]

\* The NOT NULL columns of the orders table that a request can write.
OrderRowValid(order) == order.status # NULL /\ order.delivery_address # NULL

\* ------------------------------------------------ reads of the orders
\* What a call gives its caller: the body it returns with 200, or the
\* status code of the exception that ends it (500 for an exception that is
\* no HTTPException).
Ok(body) == [status_code |-> HTTP_200_OK, body |-> body]
Failed(status_code) == [status_code |-> status_code, body |-> None]

\* _build_order_response (lines 425-455): every column of the order and
\* its lines.
OrderResponse(o) ==
    [id |-> o,
     user_id |-> orders[o].user_id,
     total_amount |-> orders[o].total_amount,
     status |-> orders[o].status,
     payment_method |-> orders[o].payment_method,
     payment_id |-> orders[o].payment_id,
     delivery_address |-> orders[o].delivery_address,
     estimated_delivery |-> orders[o].estimated_delivery,
     items |-> SelectSeq(order_items, LAMBDA it : it.order_id = o)]

\* get_order_by_id (lines 289-305).
get_order_by_id(u, o) ==
    IF ~OrderOf(u, o) THEN Failed(HTTP_404_NOT_FOUND) ELSE Ok(OrderResponse(o))

\* One OrderListResponse (lines 270-285); items_count is the sum of the
\* quantities of the order's lines.
OrderListResponse(o) ==
    [id |-> o,
     total_amount |-> orders[o].total_amount,
     status |-> orders[o].status,
     payment_method |-> orders[o].payment_method,
     delivery_address |-> orders[o].delivery_address,
     estimated_delivery |-> orders[o].estimated_delivery,
     items_count |->
        LET lines == SelectSeq(order_items, LAMBDA it : it.order_id = o)
        IN SumSeq([i \in 1..Len(lines) |-> lines[i].quantity])]

\* The ids of the orders with Order.user_id == user_id.
UserOrderIds(u) == { o \in 1..Len(orders) : orders[o].user_id = u }

\* get_user_orders (lines 259-287): the user's orders by created_at
\* descending, skip of them left out and at most limit returned. No order
\* is given a created_at, so each gets the column default, which base.py
\* (line 13) evaluates once, when the module is loaded: the orders of one
\* run of the service tie and the database returns them in any order. The
\* value is the set of lists the call can return.
get_user_orders(u, skip, limit) ==
    { LET n == IF Len(q) - skip < limit THEN Len(q) - skip ELSE limit
      IN [i \in 1..(IF n < 0 THEN 0 ELSE n) |-> OrderListResponse(q[skip + i])]
      : q \in Orderings(UserOrderIds(u)) }

\* get_orders_by_status (api/order.py 173-198) for a user: the page of
\* get_user_orders is taken first and filtered by status afterwards.
\* HTTPException is not imported in api/order.py, so the raise for a status
\* outside the enum ends in NameError. The value is the set of outcomes.
get_orders_by_status(u, status, skip, limit) ==
    IF status \notin OrderStatusEnum
    THEN { Failed(HTTP_500_INTERNAL_SERVER_ERROR) }
    ELSE { Ok(SelectSeq(page, LAMBDA order : order.status = status))
           : page \in get_user_orders(u, skip, limit) }

\* A datetime: aware (with tzinfo) or naive (without).
Aware(t) == [tzinfo |-> "utc", t |-> t]
Naive(t) == [tzinfo |-> "none", t |-> t]

\* a >= b on datetimes: Python raises TypeError when one is aware and the
\* other naive.
DatetimeGe(a, b) ==
    IF a.tzinfo # b.tzinfo THEN [raised |-> "TypeError", value |-> FALSE]
    ELSE [raised |-> "", value |-> a.t >= b.t]

\* Order.created_at as the database returns it: the column is
\* DateTime(timezone=True) (base.py line 13), its values are aware.
OrderCreatedAt(o) == Aware(0)

\* datetime.utcnow().replace(day=1, ...) (line 407): a naive datetime.
CurrentMonth == Naive(0)

\* get_order_stats (lines 369-423); user_id NULL stands for the call
\* without a user. With no order every field is zero; else the counts and
\* the revenue of the DELIVERED orders are computed, and then each order's
\* created_at is compared with the start of the month.
get_order_stats(user_id) ==
    LET rows == IF user_id # NULL THEN UserOrderIds(user_id) ELSE 1..Len(orders)
        count(st) == Cardinality({ o \in rows : orders[o].status = st })
        delivered_orders ==
            SelectSeq([o \in 1..Len(orders) |-> o],
                      LAMBDA o : o \in rows /\ orders[o].status = DELIVERED)
        total_revenue ==
            SumSeq([i \in 1..Len(delivered_orders) |->
                       orders[delivered_orders[i]].total_amount])
        this_month == { o \in rows : DatetimeGe(OrderCreatedAt(o), CurrentMonth).value }
    IN IF rows = {}
       THEN Ok([total_orders |-> 0, pending_orders |-> 0, confirmed_orders |-> 0,
                shipped_orders |-> 0, delivered_orders |-> 0,
                cancelled_orders |-> 0, total_revenue |-> 0,
                orders_this_month |-> 0, revenue_this_month |-> 0])
       ELSE IF \E o \in rows : DatetimeGe(OrderCreatedAt(o), CurrentMonth).raised # ""
       THEN Failed(HTTP_500_INTERNAL_SERVER_ERROR)
       ELSE Ok([total_orders |-> Cardinality(rows),
                pending_orders |-> count(PENDING),
                confirmed_orders |-> count(CONFIRMED),
                shipped_orders |-> count(SHIPPED),
                delivered_orders |-> count(DELIVERED),
                cancelled_orders |-> count(CANCELLED),
                total_revenue |-> total_revenue,
                orders_this_month |-> Cardinality(this_month),
                revenue_this_month |->
                    SumSeq([i \in 1..Len(delivered_orders) |->
                               IF delivered_orders[i] \in this_month
                               THEN orders[delivered_orders[i]].total_amount
                               ELSE 0])])

\* ------------------------------------------------ writes of the orders
\* Variant: only a shipped order is protected.
update_order_shipped_only(u, o, update_data) ==
    /\ Receive
    /\ IF ~OrderOf(u, o)
       THEN /\ resp' = Response("update_order", HTTP_404_NOT_FOUND)
            /\ UNCHANGED orders
       ELSE IF orders[o].status \in {SHIPPED}
       THEN /\ resp' = Response("update_order", HTTP_400_BAD_REQUEST)
            /\ UNCHANGED orders
       ELSE IF ~OrderRowValid(ApplyUpdate(orders[o], update_data))
       THEN /\ resp' = Response("update_order", HTTP_500_INTERNAL_SERVER_ERROR)
            /\ UNCHANGED orders
       ELSE /\ orders' = [orders EXCEPT ![o] = ApplyUpdate(orders[o], update_data)]
            /\ resp' = Response("update_order", HTTP_200_OK)
    /\ UNCHANGED <<products, cart, cart_seq, order_items, consumed, sess>>
    /\ UNCHANGED <<auth, listing>>

\* update_order (lines 307-338).
update_order(u, o, update_data) ==
    /\ Receive
    /\ IF ~OrderOf(u, o)
       THEN /\ resp' = Response("update_order", HTTP_404_NOT_FOUND)
            /\ UNCHANGED orders
       ELSE IF orders[o].status \in {SHIPPED, DELIVERED}
       THEN /\ resp' = Response("update_order", HTTP_400_BAD_REQUEST)
            /\ UNCHANGED orders
       ELSE IF ~OrderRowValid(ApplyUpdate(orders[o], update_data))
       THEN /\ resp' = Response("update_order", HTTP_500_INTERNAL_SERVER_ERROR)
            /\ UNCHANGED orders
       ELSE /\ orders' = [orders EXCEPT ![o] = ApplyUpdate(orders[o], update_data)]
            /\ resp' = Response("update_order", HTTP_200_OK)
    /\ UNCHANGED <<products, cart, cart_seq, order_items, consumed, sess>>
    /\ UNCHANGED <<auth, listing>>

\* Variant: the UPDATE reaches every order of the user.
cancel_order_of_user(u, o) ==
    /\ Receive
    /\ IF ~OrderOf(u, o)
       THEN /\ resp' = Response("cancel_order", HTTP_404_NOT_FOUND)
            /\ UNCHANGED orders
       ELSE IF orders[o].status \in {SHIPPED, DELIVERED}
       THEN /\ resp' = Response("cancel_order", HTTP_400_BAD_REQUEST)
            /\ UNCHANGED orders
       ELSE /\ orders' = [i \in 1..Len(orders) |->
                            IF orders[i].user_id = u
                            THEN [orders[i] EXCEPT !.status = CANCELLED]
                            ELSE orders[i]]
            /\ resp' = Response("cancel_order", HTTP_200_OK)
    /\ UNCHANGED <<products, cart, cart_seq, order_items, consumed, sess>>
    /\ UNCHANGED <<auth, listing>>

\* cancel_order (lines 340-367).
cancel_order(u, o) ==
    /\ Receive
    /\ IF ~OrderOf(u, o)
       THEN /\ resp' = Response("cancel_order", HTTP_404_NOT_FOUND)
            /\ UNCHANGED orders
       ELSE IF orders[o].status \in {SHIPPED, DELIVERED}
       THEN /\ resp' = Response("cancel_order", HTTP_400_BAD_REQUEST)
            /\ UNCHANGED orders
       ELSE /\ orders' = [orders EXCEPT ![o].status = CANCELLED]
            /\ resp' = Response("cancel_order", HTTP_200_OK)
    /\ UNCHANGED <<products, cart, cart_seq, order_items, consumed, sess>>
    /\ UNCHANGED <<auth, listing>>

\* ============================================================= catalog
\* Variant: the new price is written through to the order lines of the product.
update_product_through(p, price) ==
    /\ Receive
    /\ IF p \notin DOMAIN products
       THEN /\ resp' = Response("update_product", HTTP_404_NOT_FOUND)
            /\ UNCHANGED <<products, order_items>>
       ELSE /\ products' = [products EXCEPT ![p] = price]
            /\ order_items' = [i \in 1..Len(order_items) |->
                                 IF order_items[i].product_id = p
                                 THEN [order_items[i] EXCEPT !.price = price]
                                 ELSE order_items[i]]
            /\ resp' = Response("update_product", HTTP_200_OK)
    /\ UNCHANGED <<cart, cart_seq, orders, consumed, sess>>
    /\ UNCHANGED <<auth, listing>>

\* update_product with a new price (product_service.py lines 92-118).
update_product(p, price) ==
    /\ Receive
    /\ IF p \notin DOMAIN products
       THEN /\ resp' = Response("update_product", HTTP_404_NOT_FOUND)
            /\ UNCHANGED products
       ELSE /\ products' = [products EXCEPT ![p] = price]
            /\ resp' = Response("update_product", HTTP_200_OK)
    /\ UNCHANGED <<cart, cart_seq, orders, order_items, consumed, sess>>
    /\ UNCHANGED <<auth, listing>>

\* delete_product (product_service.py lines 120-131): the DELETE of a
\* product that cart lines or order lines still reference fails on their
\* product_id (NOT NULL, foreign key) and is rolled back.
delete_product(p) ==
    /\ Receive
    /\ IF p \notin DOMAIN products
       THEN /\ resp' = Response("delete_product", HTTP_404_NOT_FOUND)
            /\ UNCHANGED products
       ELSE IF ProductReferenced(p)
       THEN /\ resp' = Response("delete_product", HTTP_500_INTERNAL_SERVER_ERROR)
            /\ UNCHANGED products
       ELSE /\ products' = [q \in DOMAIN products \ {p} |-> products[q]]
            /\ resp' = Response("delete_product", HTTP_204_NO_CONTENT)
    /\ UNCHANGED <<cart, cart_seq, orders, order_items, consumed, sess>>
    /\ UNCHANGED <<auth, listing>>

\* ============================================================= listing
\* No product list request served yet.
NoListing == [request |-> None, response |-> [status_code |-> 0, body |-> None]]

\* An Optional[Decimal] query parameter: None, or a number.
NoPrice == [given |-> FALSE, value |-> 0]
Price(v) == [given |-> TRUE, value |-> v]

\* The columns of a products row that a list can be sorted by. The price
\* is in table products; the other columns, which no request of the model
\* writes, are given by the id. created_at is the column default, which
\* base.py (line 13) evaluates once per run of the service: the rows that
\* one run creates share it.
ProductRow(id) ==
    [id |-> id,
     name |-> (id * 7) % 29,
     price |-> products[id],
     average_rating |-> (id * 3) % 6,
     total_reviews |-> (id * 5) % 4,
     created_at |-> id \div 3]

\* The names that are attributes of class Product (models/product.py 18-64
\* and models/base.py 12-14).
ProductAttributes ==
    {"id", "created_at", "updated_at", "name", "description", "price", "grade",
     "manufacturer", "series", "scale", "difficulty", "in_stock", "main_image",
     "additional_images", "average_rating", "total_reviews", "order_items",
     "cart_items", "is_in_stock", "rating_stars", "formatted_price"}

\* ProductFilter.validate_sort_by accepting every key.
validate_sort_by_unchecked(v) == TRUE

\* ProductFilter.validate_sort_by (schemas/product.py 134-140).
validate_sort_by(v) ==
    v \in {"name", "price", "rating", "created_at", "average_rating", "total_reviews"}

\* ProductFilter.validate_sort_order (schemas/product.py 142-147).
validate_sort_order(v) == v \in {"asc", "desc"}

\* ProductFilter(...): the validators raise ValueError, which pydantic
\* turns into ValidationError, itself a ValueError.
ProductFilter(min_price, sort_by, sort_order) ==
    [raised |-> IF validate_sort_by(sort_by) /\ validate_sort_order(sort_order)
                THEN "" ELSE "ValidationError",
     value |-> [min_price |-> min_price, sort_by |-> sort_by,
                sort_order |-> sort_order]]

\* _apply_filters (product_service.py 178-211), for the min_price filter:
\* the ids of the rows the query keeps.
apply_filters(filters) ==
    { id \in DOMAIN products :
         filters.min_price.given => products[id] >= filters.min_price.value }

\* Row a comes before row b in ORDER BY column, asc or desc; rows with
\* equal keys come in the order the database chooses (tie: by id upwards or
\* downwards).
Before(a, b, column, sort_order, tie) ==
    LET ka == ProductRow(a)[column]
        kb == ProductRow(b)[column]
    IN IF ka # kb
       THEN IF sort_order = "asc" THEN ka < kb ELSE ka > kb
       ELSE IF tie = "asc" THEN a < b ELSE a > b

\* _apply_sorting (product_service.py 213-225): getattr(Product, sort_by,
\* None), created_at when there is no such attribute, asc for "asc" and
\* desc for anything else. The value is the sequence of the ids in order.
apply_sorting(query, sort_by, sort_order, tie) ==
    LET sort_field == IF sort_by \in ProductAttributes THEN sort_by ELSE "created_at"
    IN [k \in 1..Cardinality(query) |->
           CHOOSE a \in query :
              Cardinality({ b \in query :
                               Before(b, a, sort_field, sort_order, tie) }) = k - 1]

\* Integer division in place of math.ceil.
FloorDiv(total, size) == total \div size

\* math.ceil(total / size) for size > 0.
CeilDiv(total, size) ==
    IF total % size = 0 THEN total \div size ELSE total \div size + 1

\* ProductListResponse with its validators (schemas/product.py 199-228):
\* pages, has_next and has_prev are computed again from total, size and page.
ProductListResponse(items, total, page, size, pages, has_next, has_prev) ==
    LET pages_v == IF size > 0 THEN CeilDiv(total, size) ELSE pages
    IN [items |-> items, total |-> total, page |-> page, size |-> size,
        pages |-> pages_v, has_next |-> page < pages_v, has_prev |-> page > 1]

\* ProductService.get_products (product_service.py 23-60).
get_products(filters, page, size, tie) ==
    LET query == apply_filters(filters)
        total == Cardinality(query)
        sorted == apply_sorting(query, filters.sort_by, filters.sort_order, tie)
        offset == (page - 1) * size
        last == IF offset + size < total THEN offset + size ELSE total
        items == [k \in 1..(IF last > offset THEN last - offset ELSE 0) |->
                     ProductRow(sorted[offset + k])]
        pages == IF size > 0 THEN CeilDiv(total, size) ELSE 0
    IN ProductListResponse(items, total, page, size, pages, page < pages, page > 1)

\* The route get_products (api/product.py 25-77): page and size are
\* validated by the framework (422), the filter by ProductFilter; a
\* ValueError of the filter is answered 400.
route_get_products(page, size, min_price, sort_by, sort_order, tie) ==
    /\ listing = NoListing
    /\ LET filters == ProductFilter(min_price, sort_by, sort_order)
           response ==
               IF page < 1 \/ size < 1 \/ size > 100
               THEN Failed(HTTP_422_UNPROCESSABLE_ENTITY)
               ELSE IF filters.raised # ""
               THEN Failed(HTTP_400_BAD_REQUEST)
               ELSE Ok(get_products(filters.value, page, size, tie))
       IN listing' = [request |-> [page |-> page, size |-> size,
                                   min_price |-> min_price, sort_by |-> sort_by,
                                   sort_order |-> sort_order],
                      response |-> response]
    /\ UNCHANGED <<db, sess, resp, requests, auth>>

\* ================================================================ auth
\* An Optional[timedelta]: None, or a number of minutes.
NoDelta == [given |-> FALSE, minutes |-> 0]
Minutes(m) == [given |-> TRUE, minutes |-> m]

\* Python's truth value of an Optional[timedelta]: None and timedelta(0)
\* are both false.
Truthy(expires_delta) == expires_delta.given /\ expires_delta.minutes # 0

\* str(uuid) and uuid.UUID(str): a claim value is text, and only text that
\* was made from a UUID parses back into one.
UuidStr(user_id) == [kind |-> "uuid", val |-> user_id]
Text(t) == [kind |-> "text", val |-> t]
MissingClaim == [kind |-> "none", val |-> ""]
IsUuidStr(x) == x.kind = "uuid"

\* The claims of a token; jwt.encode signs them with a key (HS256).
Payload(token) ==
    [sub |-> token.sub, email |-> token.email, exp |-> token.exp, iat |-> token.iat]
Sign(key, payload) == [key |-> key, over |-> payload]
Encode(payload, key) ==
    [sub |-> payload.sub, email |-> payload.email, exp |-> payload.exp,
     iat |-> payload.iat, sig |-> Sign(key, payload)]

\* JWTManager.create_access_token, called at time t.
create_access_token(user_id, email, expires_delta, t) ==
    LET expire == IF Truthy(expires_delta)
                  THEN t + expires_delta.minutes
                  ELSE t + ACCESS_TOKEN_EXPIRE_MINUTES
    IN Encode([sub |-> UuidStr(user_id), email |-> email, exp |-> expire, iat |-> t],
              SECRET_KEY)

\* JWTManager.verify_token, called at time t: jwt.decode raises for a
\* signature made with another key or over other claims and for an exp
\* that has passed; a missing sub or email and a sub that is no UUID give
\* None as well.
verify_token(token, t) ==
    IF token.sig # Sign(SECRET_KEY, Payload(token)) THEN None
    ELSE IF token.exp <= t THEN None
    ELSE IF token.sub.kind = "none" \/ token.sub.val = "" \/ token.email = ""
    THEN None
    ELSE IF ~IsUuidStr(token.sub) THEN None
    ELSE [user_id |-> token.sub.val, email |-> token.email]

\* ------------------------------------------------- session resolution
\* The access_token cookie as set_token_cookie writes it.
BearerCookie(token) == [scheme |-> "Bearer ", token |-> token]
\* A cookie named access_token whose value lacks the "Bearer " prefix.
RawCookie(token) == [scheme |-> "", token |-> token]

\* A request's credentials: the token of its Authorization bearer header
\* (HTTPBearer with auto_error=False gives None without one) and its
\* access_token cookie.
Request(credentials, cookie) == [credentials |-> credentials, cookie |-> cookie]

\* JWTManager.get_token_from_cookie
get_token_from_cookie(request) ==
    IF request.cookie # None /\ request.cookie.scheme = "Bearer "
    THEN request.cookie.token
    ELSE None

\* get_token_from_request with the cookie looked at first.
get_token_from_request_cookie_first(request) ==
    IF get_token_from_cookie(request) # None
    THEN get_token_from_cookie(request)
    ELSE request.credentials

\* get_token_from_request: the header's token when there is one, else the
\* cookie's.
get_token_from_request(request) ==
    IF request.credentials # None
    THEN request.credentials
    ELSE get_token_from_cookie(request)

\* The outcome of a dependency: the user it yields, or the status code of
\* the HTTPException it raises.
Resolved(user_id) == [status_code |-> HTTP_200_OK, user_id |-> user_id]
Raised(status_code) == [status_code |-> status_code, user_id |-> NULL]

\* get_current_user with a server-side session record that logout clears:
\* no token is accepted once the access_token cookie was deleted.
get_current_user_with_sessions(request) ==
    LET token == get_token_from_request(request)
    IN IF cookie_jar = None THEN Raised(HTTP_401_UNAUTHORIZED)
       ELSE IF token = None THEN Raised(HTTP_401_UNAUTHORIZED)
       ELSE LET user_data == verify_token(token, now)
            IN IF user_data = None THEN Raised(HTTP_401_UNAUTHORIZED)
               ELSE IF user_data.user_id \notin DOMAIN users
               THEN Raised(HTTP_401_UNAUTHORIZED)
               ELSE Resolved(user_data.user_id)

\* get_current_user (dependencies.py 27-57), for the request's token.
get_current_user(request) ==
    LET token == get_token_from_request(request)
    IN IF token = None THEN Raised(HTTP_401_UNAUTHORIZED)
       ELSE LET user_data == verify_token(token, now)
            IN IF user_data = None THEN Raised(HTTP_401_UNAUTHORIZED)
               ELSE IF user_data.user_id \notin DOMAIN users
               THEN Raised(HTTP_401_UNAUTHORIZED)
               ELSE Resolved(user_data.user_id)

\* get_current_active_user (dependencies.py 60-67)
get_current_active_user(request) ==
    LET current_user == get_current_user(request)
    IN IF current_user.status_code # HTTP_200_OK THEN current_user
       ELSE IF ~users[current_user.user_id].is_active
       THEN Raised(HTTP_400_BAD_REQUEST)
       ELSE current_user

\* get_current_admin_user (dependencies.py 71-77)
get_current_admin_user(request) ==
    LET current_user == get_current_active_user(request)
    IN IF current_user.status_code # HTTP_200_OK THEN current_user
       ELSE IF ~users[current_user.user_id].is_admin
       THEN Raised(HTTP_403_FORBIDDEN)
       ELSE current_user

\* An HTTP request arrives with its credentials; it is served next.
Arrive(credentials, cookie) ==
    /\ requests < MaxApiRequests
    /\ http_request.seq = requests
    /\ http_request' = [credentials |-> credentials, cookie |-> cookie, seq |-> requests + 1]
    /\ UNCHANGED <<db, sess, resp, requests, users, now, cookie_jar, listing>>

\* The request that arrived is not served yet.
Pending == http_request.seq = requests + 1

\* A request that ends in the HTTPException of a dependency: the route's
\* function is not called.
Rejected(op, status_code) ==
    /\ Receive
    /\ resp' = Response(op, status_code)
    /\ UNCHANGED <<db, sess, auth, listing>>

\* A route function that reads and answers 200.
Answered(op) ==
    /\ Receive
    /\ resp' = Response(op, HTTP_200_OK)
    /\ UNCHANGED <<db, sess, auth, listing>>

\* --------------------------------------------- routes of api/order.py
\* Every route depends on get_current_user and hands the user's id to the
\* service.
route_get_cart ==
    /\ Pending
    /\ LET current_user == get_current_user(http_request)
       IN IF current_user.status_code # HTTP_200_OK
          THEN Rejected("get_cart", current_user.status_code)
          ELSE Answered("get_cart")

route_add_to_cart(p, q) ==
    /\ Pending
    /\ LET current_user == get_current_user(http_request)
       IN IF current_user.status_code # HTTP_200_OK
          THEN Rejected("add_to_cart", current_user.status_code)
          ELSE add_to_cart(current_user.user_id, p, q)

route_update_cart_item(id, q) ==
    /\ Pending
    /\ LET current_user == get_current_user(http_request)
       IN IF current_user.status_code # HTTP_200_OK
          THEN Rejected("update_cart_item", current_user.status_code)
          ELSE update_cart_item(current_user.user_id, id, q)

route_remove_from_cart(id) ==
    /\ Pending
    /\ LET current_user == get_current_user(http_request)
       IN IF current_user.status_code # HTTP_200_OK
          THEN Rejected("remove_from_cart", current_user.status_code)
          ELSE remove_from_cart(current_user.user_id, id)

route_create_order(order_data) ==
    /\ Pending
    /\ LET current_user == get_current_user(http_request)
       IN IF current_user.status_code # HTTP_200_OK
          THEN Rejected("create_order_from_cart", current_user.status_code)
          ELSE create_order_from_cart(current_user.user_id, order_data)

route_get_orders ==
    /\ Pending
    /\ LET current_user == get_current_user(http_request)
       IN IF current_user.status_code # HTTP_200_OK
          THEN Rejected("get_orders", current_user.status_code)
          ELSE Answered("get_orders")

\* get_order: get_order_by_id (lines 289-305) raises 404 for an order that
\* is not the user's.
route_get_order(o) ==
    /\ Pending
    /\ LET current_user == get_current_user(http_request)
       IN IF current_user.status_code # HTTP_200_OK
          THEN Rejected("get_order", current_user.status_code)
          ELSE IF ~OrderOf(current_user.user_id, o)
          THEN Rejected("get_order", HTTP_404_NOT_FOUND)
          ELSE Answered("get_order")

route_update_order(o, update_data) ==
    /\ Pending
    /\ LET current_user == get_current_user(http_request)
       IN IF current_user.status_code # HTTP_200_OK
          THEN Rejected("update_order", current_user.status_code)
          ELSE update_order(current_user.user_id, o, update_data)

route_cancel_order(o) ==
    /\ Pending
    /\ LET current_user == get_current_user(http_request)
       IN IF current_user.status_code # HTTP_200_OK
          THEN Rejected("cancel_order", current_user.status_code)
          ELSE cancel_order(current_user.user_id, o)

\* get_user_order_stats (lines 148-158).
route_get_user_order_stats ==
    /\ Pending
    /\ LET current_user == get_current_user(http_request)
       IN IF current_user.status_code # HTTP_200_OK
          THEN Rejected("get_user_order_stats", current_user.status_code)
          ELSE LET stats == get_order_stats(current_user.user_id)
               IN IF stats.status_code # HTTP_200_OK
                  THEN Rejected("get_user_order_stats", stats.status_code)
                  ELSE Answered("get_user_order_stats")

\* get_orders_by_status (lines 173-198).
route_get_orders_by_status(status, skip, limit) ==
    /\ Pending
    /\ LET current_user == get_current_user(http_request)
       IN IF current_user.status_code # HTTP_200_OK
          THEN Rejected("get_orders_by_status", current_user.status_code)
          ELSE \E out \in get_orders_by_status(current_user.user_id, status, skip, limit) :
                  IF out.status_code # HTTP_200_OK
                  THEN Rejected("get_orders_by_status", out.status_code)
                  ELSE Answered("get_orders_by_status")

\* get_global_order_stats (lines 201-215): for a user who is no admin the
\* handler raises HTTPException, a name api/order.py never imports (lines
\* 1-14), so the raise ends in NameError and the request in 500.
route_get_global_order_stats ==
    /\ Pending
    /\ LET current_user == get_current_user(http_request)
       IN IF current_user.status_code # HTTP_200_OK
          THEN Rejected("get_global_order_stats", current_user.status_code)
          ELSE IF ~users[current_user.user_id].is_admin
          THEN Rejected("get_global_order_stats", HTTP_500_INTERNAL_SERVER_ERROR)
          ELSE LET stats == get_order_stats(NULL)
               IN IF stats.status_code # HTTP_200_OK
                  THEN Rejected("get_global_order_stats", stats.status_code)
                  ELSE Answered("get_global_order_stats")

\* A path of the router: literal segments and parameters.
Lit(name) == [kind |-> "lit", name |-> name]
Param(name) == [kind |-> "param", name |-> name]

\* The DELETE routes of api/order.py in the order of their registration
\* (lines 52 and 64).
DeleteRoutes ==
    << [path |-> <<Lit("cart"), Param("item_id")>>, endpoint |-> "remove_from_cart"],
       [path |-> <<Lit("cart"), Lit("clear")>>, endpoint |-> "clear_cart"] >>

\* A route's path matches a request path segment by segment; a parameter
\* matches any segment.
Matches(path, segments) ==
    /\ Len(path) = Len(segments)
    /\ \A i \in 1..Len(path) : path[i].kind = "param" \/ path[i].name = segments[i]

\* The router hands a request to the first registered route that matches.
Dispatch(routes, segments) ==
    LET hits == { i \in 1..Len(routes) : Matches(routes[i].path, segments) }
    IN routes[CHOOSE i \in hits : \A j \in hits : i <= j].endpoint

\* DELETE /cart/clear: the request goes to the route Dispatch names. In
\* remove_from_cart the segment "clear" is the item_id, which is no UUID:
\* once the dependencies are resolved the request ends in a validation
\* error (422) and the handler is not called.
route_delete_cart_clear ==
    /\ Pending
    /\ LET endpoint == Dispatch(DeleteRoutes, <<"cart", "clear">>)
           current_user == get_current_user(http_request)
       IN IF current_user.status_code # HTTP_200_OK
          THEN Rejected(endpoint, current_user.status_code)
          ELSE IF endpoint = "clear_cart"
          THEN clear_cart(current_user.user_id)
          ELSE Rejected(endpoint, HTTP_422_UNPROCESSABLE_ENTITY)

\* ------------------------------------------- routes of api/product.py
\* The routes declare no dependency on the caller: the request's
\* credentials are not looked at.
route_update_product(p, price) == Pending /\ update_product(p, price)

route_delete_product(p) == Pending /\ delete_product(p)

\* ---------------------------------------------- routes of api/auth.py
\* The outcome of a call: the value it returns, or the exception it raises.
Return(value) == [raised |-> "", value |-> value]
Raise(exception) == [raised |-> exception, value |-> NULL]

\* str.lower() on the e-mail addresses of the model.
Lower(email) == IF email = "Alice@x.io" THEN "alice@x.io" ELSE email

\* pwd_context.hash and pwd_context.verify
get_password_hash(password) == [argon2 |-> password]
verify_password(plain_password, hashed_password) ==
    hashed_password = get_password_hash(plain_password)

\* AuthService.get_user_by_email (lines 63-69): the statement is built with
\* func.lower, and auth_service.py imports no func: the call raises
\* NameError before any query is sent.
get_user_by_email(email) == Raise("NameError")

\* AuthService.get_user_by_username (lines 73-78): the id of the row, or
\* NULL.
get_user_by_username(username) ==
    IF \E u \in DOMAIN users : users[u].username = username
    THEN Return(CHOOSE u \in DOMAIN users : users[u].username = username)
    ELSE Return(NULL)

\* AuthService.authenticate_user (lines 90-98)
authenticate_user(email, password) ==
    LET user == get_user_by_email(email)
    IN IF user.raised # "" THEN user
       ELSE IF user.value = NULL THEN Return(NULL)
       ELSE IF ~verify_password(password, users[user.value].password_hash)
       THEN Return(NULL)
       ELSE user

\* The except clause of register_user (lines 59-68): isinstance is given
\* exception instances where it takes classes and raises TypeError, which
\* nothing handles: whatever was raised in the try block, the answer is 500.
register_user_except(exception) == HTTP_500_INTERNAL_SERVER_ERROR

\* The except clause of login_user (lines 124-140): it catches Exception,
\* the HTTPExceptions raised in the try block included, and raises
\* HTTPException(500) in their place.
login_user_except(exception) == HTTP_500_INTERNAL_SERVER_ERROR

\* Ids a new users row can get.
NewUserIds == {"u3"}

\* Bodies of POST /auth/register that pass UserCreateSchemas.
UserCreateSchemas ==
    { [email |-> "alice@x.io", username |-> "carol", password |-> "Passw0rd3"],
      [email |-> "Alice@x.io", username |-> "carol", password |-> "Passw0rd3"],
      [email |-> "carol@x.io", username |-> "alice", password |-> "Passw0rd3"],
      [email |-> "carol@x.io", username |-> "carol", password |-> "Passw0rd3"] }

\* Bodies of POST /auth/login.
UserLoginSchemas ==
    { [email |-> "alice@x.io", password |-> "Passw0rd1"],
      [email |-> "alice@x.io", password |-> "Passw0rd2"],
      [email |-> "bob@x.io", password |-> "Passw0rd2"],
      [email |-> "carol@x.io", password |-> "Passw0rd1"] }

\* register_user (api/auth.py 28-68) with AuthService.create_user (36-58).
register_user(user) ==
    /\ Pending
    /\ Receive
    /\ LET by_email == get_user_by_email(user.email)
           by_username == get_user_by_username(user.username)
       IN IF by_email.raised # ""
          THEN /\ resp' = Response("register_user", register_user_except(by_email.raised))
               /\ UNCHANGED users
          ELSE IF by_email.value # NULL
          THEN /\ resp' = Response("register_user",
                                   register_user_except("USER_ALREADY_EXISTS"))
               /\ UNCHANGED users
          ELSE IF by_username.value # NULL
          THEN /\ resp' = Response("register_user",
                                   register_user_except("USERNAME_TAKEN"))
               /\ UNCHANGED users
          ELSE \E id \in NewUserIds \ DOMAIN users :
                  /\ users' = [u \in DOMAIN users \cup {id} |->
                                  IF u = id
                                  THEN [email |-> user.email,
                                        username |-> user.username,
                                        password_hash |-> get_password_hash(user.password),
                                        is_admin |-> FALSE, is_active |-> TRUE]
                                  ELSE users[u]]
                  /\ resp' = Response("register_user", HTTP_201_CREATED)
    /\ UNCHANGED <<db, sess, now, http_request, cookie_jar, listing>>

\* login_user (api/auth.py 71-140)
login_user(user_credentials) ==
    /\ Pending
    /\ Receive
    /\ LET user == authenticate_user(user_credentials.email, user_credentials.password)
       IN IF user.raised # ""
          THEN /\ resp' = Response("login_user", login_user_except(user.raised))
               /\ UNCHANGED cookie_jar
          ELSE IF user.value = NULL
          THEN /\ resp' = Response("login_user", login_user_except("INVALID_CREDENTIALS"))
               /\ UNCHANGED cookie_jar
          ELSE IF ~users[user.value].is_active
          THEN /\ resp' = Response("login_user", login_user_except("INACTIVE_USER"))
               /\ UNCHANGED cookie_jar
          ELSE LET access_token ==
                       create_access_token(user.value, users[user.value].email,
                                           Minutes(ACCESS_TOKEN_EXPIRE_MINUTES), now)
               IN /\ resp' = [op |-> "login_user", code |-> HTTP_200_OK,
                              set_cookie |-> [action |-> "set",
                                              value |-> BearerCookie(access_token)]]
                  /\ cookie_jar' = BearerCookie(access_token)
    /\ UNCHANGED <<db, sess, users, now, http_request, listing>>

\* logout_user (api/auth.py 143-155): remove_token_cookie on the response;
\* the route reads no token and touches no table.
logout_user ==
    /\ Pending
    /\ Receive
    /\ resp' = [op |-> "logout_user", code |-> HTTP_200_OK,
                set_cookie |-> [action |-> "delete", value |-> None]]
    /\ cookie_jar' = None
    /\ UNCHANGED <<db, sess, users, now, http_request, listing>>

\* get_current_user_profile (api/auth.py 158-169)
get_current_user_profile ==
    /\ Pending
    /\ LET current_user == get_current_active_user(http_request)
       IN IF current_user.status_code # HTTP_200_OK
          THEN Rejected("get_current_user_profile", current_user.status_code)
          ELSE Answered("get_current_user_profile")

\* verify_token_from_header (api/auth.py 205-229)
verify_token_from_header(token) ==
    /\ Pending
    /\ IF verify_token(token, now) = None
       THEN Rejected("verify_token_from_header", HTTP_401_UNAUTHORIZED)
       ELSE Answered("verify_token_from_header")

\* Time passes.
Tick ==
    /\ now < MaxTime
    /\ now' = now + 1
    /\ UNCHANGED <<db, sess, resp, requests, users, http_request, cookie_jar, listing>>

\* ------------------------------------------------ the tokens in use
\* A token issued to a user ACCESS_TOKEN_EXPIRE_MINUTES - 1 minutes before
\* the clock starts: it expires at minute 1.
ShortToken(u) ==
    create_access_token(u, InitialUsers[u].email, NoDelta, 1 - ACCESS_TOKEN_EXPIRE_MINUTES)

\* A token issued to a user as the clock starts.
LongToken(u) == create_access_token(u, InitialUsers[u].email, NoDelta, 0)

\* A token issued to a user whose row is gone.
UnknownUserToken == create_access_token("u0", "ghost@x.io", NoDelta, 0)

\* A token for u1 signed with a key that is not the server's.
ForgedToken ==
    Encode([sub |-> UuidStr("u1"), email |-> InitialUsers["u1"].email,
            exp |-> ACCESS_TOKEN_EXPIRE_MINUTES, iat |-> 0], OTHER_KEY)

Tokens ==
    {ShortToken("u1"), LongToken("u1"), LongToken("u2"), UnknownUserToken, ForgedToken}

\* The credentials requests arrive with.
Credentials ==
    { Request(None, None),
      Request(ShortToken("u1"), None),
      Request(LongToken("u2"), None),
      Request(UnknownUserToken, None),
      Request(ForgedToken, None),
      Request(None, BearerCookie(LongToken("u1"))),
      Request(None, RawCookie(LongToken("u1"))),
      Request(LongToken("u2"), BearerCookie(LongToken("u1"))),
      Request(ForgedToken, BearerCookie(LongToken("u1"))) }

\* ======================================================= specifications
\* The tables as the service finds them, no request served yet; the client
\* holds the cookie of an earlier login of u1.
Init ==
    /\ products = [p \in Products |-> IF p = "p1" THEN 1 ELSE MaxPrice]
    /\ cart = {}
    /\ cart_seq = 0
    /\ orders = <<>>
    /\ order_items = <<>>
    /\ consumed = <<>>
    /\ sess = [s \in Sessions |-> Idle]
    /\ resp = Response("none", 0)
    /\ requests = 0
    /\ users = InitialUsers
    /\ now = 0
    /\ http_request = [credentials |-> None, cookie |-> None, seq |-> 0]
    /\ cookie_jar = BearerCookie(LongToken("u1"))
    /\ listing = NoListing

\* The requests one at a time, each handler run to its end.
Next ==
    \/ \E u \in Users, p \in Products, q \in Quantities : add_to_cart(u, p, q)
    \/ \E u \in Users, id \in CartIds, q \in Quantities : update_cart_item(u, id, q)
    \/ \E u \in Users, id \in CartIds : remove_from_cart(u, id)
    \/ \E u \in Users : clear_cart(u)
    \/ \E u \in Users, d \in OrderCreate : create_order_from_cart(u, d)
    \/ \E u \in Users, o \in OrderIds, d \in OrderUpdate : update_order(u, o, d)
    \/ \E u \in Users, o \in OrderIds : cancel_order(u, o)
    \/ \E p \in Products, price \in Prices : update_product(p, price)
    \/ \E p \in Products : delete_product(p)

Spec == Init /\ [][Next]_vars

\* Concurrent sessions: add_to_cart and create_order_from_cart interleave at
\* their queries with each other and with the requests that delete cart
\* lines and products.
ConcNext ==
    \/ \E s \in Sessions, u \in Users, p \in Products, q \in Quantities :
          add_to_cart_begin(s, u, p, q)
    \/ \E s \in Sessions : add_to_cart_find(s)
    \/ \E s \in Sessions : add_to_cart_commit(s)
    \/ \E s \in Sessions, u \in Users, d \in OrderCreate :
          create_order_from_cart_begin(s, u, d)
    \/ \E s \in Sessions : create_order_from_cart_lookup(s)
    \/ \E s \in Sessions : create_order_from_cart_commit(s)
    \/ \E u \in Users, id \in CartIds : remove_from_cart(u, id)
    \/ \E p \in Products : delete_product(p)

ConcSpec == Init /\ [][ConcNext]_vars

\* The requests as they arrive over HTTP, one at a time: each carries its
\* credentials, and its route resolves them before the service is called.
\* ApiSpec serves MaxApiRequests of them while the clock runs.
ApiNext ==
    \/ Tick
    \/ \E r \in Credentials : Arrive(r.credentials, r.cookie)
    \/ \E user \in UserCreateSchemas : register_user(user)
    \/ \E user_credentials \in UserLoginSchemas : login_user(user_credentials)
    \/ logout_user
    \/ get_current_user_profile
    \/ \E token \in Tokens : verify_token_from_header(token)
    \/ route_get_cart
    \/ \E p \in Products, q \in Quantities : route_add_to_cart(p, q)
    \/ \E id \in CartIds, q \in Quantities : route_update_cart_item(id, q)
    \/ \E id \in CartIds : route_remove_from_cart(id)
    \/ \E d \in OrderCreate : route_create_order(d)
    \/ route_get_orders
    \/ \E o \in OrderIds : route_get_order(o)
    \/ \E o \in OrderIds, d \in OrderUpdate : route_update_order(o, d)
    \/ \E o \in OrderIds : route_cancel_order(o)
    \/ route_get_user_order_stats
    \/ \E status \in OrderStatusEnum \cup {"paid"}, limit \in 1..MaxOrders :
          route_get_orders_by_status(status, 0, limit)
    \/ route_get_global_order_stats
    \/ route_delete_cart_clear
    \/ \E p \in Products, price \in Prices : route_update_product(p, price)
    \/ \E p \in Products : route_delete_product(p)

ApiSpec == Init /\ [][ApiNext]_vars

\* The inputs of a product list request.
Totals == 0..MaxTotal \cup {ListedTotal}
Pages == 0..MaxPage
Sizes == 0..MaxSize \cup {ListedSize}
MinPrices == {NoPrice, Price(MaxListPrice - 1)}
SortKeys ==
    {"name", "price", "rating", "created_at", "average_rating", "total_reviews",
     "popularity"}
SortOrders == {"asc", "desc", "down"}

\* A catalogue of some size, no request served yet.
ListInit ==
    /\ products \in { [id \in 1..n |-> 1 + ((id * 2) % MaxListPrice)] : n \in Totals }
    /\ cart = {}
    /\ cart_seq = 0
    /\ orders = <<>>
    /\ order_items = <<>>
    /\ consumed = <<>>
    /\ sess = [s \in Sessions |-> Idle]
    /\ resp = Response("none", 0)
    /\ requests = 0
    /\ users = InitialUsers
    /\ now = 0
    /\ http_request = [credentials |-> None, cookie |-> None, seq |-> 0]
    /\ cookie_jar = None
    /\ listing = NoListing

\* One product list request over the catalogue.
ListNext ==
    \E page \in Pages, size \in Sizes, min_price \in MinPrices,
       sort_by \in SortKeys, sort_order \in SortOrders, tie \in {"asc", "desc"} :
        route_get_products(page, size, min_price, sort_by, sort_order, tie)

ListSpec == ListInit /\ [][ListNext]_vars

\* ============================================================== claims
\* The order lines of order o.
LinesOfOrder(items, o) == SelectSeq(items, LAMBDA it : it.order_id = o)

\* Sum of quantity x price over a sequence of order lines.
LinesTotal(items) ==
    SumSeq([i \in 1..Len(items) |-> items[i].quantity * items[i].price])

\* C1: when two create_order_from_cart calls of one user run concurrently
\* over the same cart lines, at most one creates an order: no cart line is
\* turned into two orders.
C1_CartLineOrderedOnce ==
    \A i, j \in 1..Len(consumed) :
        i # j => consumed[i] \cap consumed[j] = {}

\* C2: a create_order_from_cart call whose product query finds no row for a
\* cart line, at whichever position of the lines it read, ends with 404 and
\* changes nothing: no order, no order line, no cart line deleted.
C2_MissingProductAborts ==
    [][\A s \in Sessions :
          (/\ sess[s].pc = "co_lookup"
           /\ sess'[s] # sess[s]
           /\ sess[s].cart_items[sess[s].idx].product_id \notin DOMAIN products)
          => /\ resp' = Response("create_order_from_cart", HTTP_404_NOT_FOUND)
             /\ sess'[s].pc = "idle"
             /\ orders' = orders
             /\ order_items' = order_items
             /\ cart' = cart]_vars

\* A checkout has ended with 404 for a product deleted under it; no order
\* exists and the other cart line of the user is still there.
C2_Witness ==
    /\ resp = Response("create_order_from_cart", HTTP_404_NOT_FOUND)
    /\ orders = <<>> /\ order_items = <<>>
    /\ cart_seq = 2 /\ Cardinality(cart) = 1

\* C3: in every reachable state each order's total_amount is the sum of
\* quantity x price over the order's own lines.
C3_TotalIsSumOfLines ==
    \A o \in 1..Len(orders) :
        orders[o].total_amount = LinesTotal(LinesOfOrder(order_items, o))

\* An order of two lines, one of them at a price the catalog no longer has.
C3_Witness ==
    \E o \in 1..Len(orders) :
        /\ Len(LinesOfOrder(order_items, o)) = 2
        /\ \E i \in 1..Len(order_items) :
              /\ order_items[i].order_id = o
              /\ order_items[i].product_id \in DOMAIN products
              /\ order_items[i].price # products[order_items[i].product_id]

\* C4: create_order_from_cart on a non-empty cart whose products all exist
\* creates exactly one order, of that user, PENDING, with one order line per
\* cart line (same product, same quantity, the catalog price) and the sum
\* of price x quantity as total; the user's cart is then empty and the
\* carts of the other users are unchanged.
C4_CheckoutCreatesOrder ==
    [][\A u \in Users, d \in OrderCreate :
          LET lines == { r \in cart : r.user_id = u }
              new_id == Len(orders) + 1
          IN (/\ lines # {}
              /\ \A r \in lines : r.product_id \in DOMAIN products
              /\ create_order_from_cart(u, d))
             => /\ resp' = Response("create_order_from_cart", HTTP_200_OK)
                /\ Len(orders') = new_id
                /\ SubSeq(orders', 1, Len(orders)) = orders
                /\ orders'[new_id].user_id = u
                /\ orders'[new_id].status = PENDING
                /\ Len(order_items') = Len(order_items) + Cardinality(lines)
                /\ SubSeq(order_items', 1, Len(order_items)) = order_items
                /\ \E cart_items \in Orderings(lines) :
                      LinesOfOrder(order_items', new_id) =
                          [i \in 1..Len(cart_items) |->
                              [order_id |-> new_id,
                               product_id |-> cart_items[i].product_id,
                               quantity |-> cart_items[i].quantity,
                               price |-> products[cart_items[i].product_id]]]
                /\ orders'[new_id].total_amount =
                      LinesTotal(LinesOfOrder(order_items', new_id))
                /\ { r \in cart' : r.user_id = u } = {}
                /\ { r \in cart' : r.user_id # u } = { r \in cart : r.user_id # u }]_vars

\* A checkout of two lines has just succeeded while another user holds a
\* cart line.
C4_Witness ==
    /\ resp = Response("create_order_from_cart", HTTP_200_OK)
    /\ Len(orders) = 1
    /\ Len(order_items) = 2
    /\ cart # {}
    /\ \A r \in cart : r.user_id # orders[1].user_id

\* C5: update_product changing a price after a checkout leaves every order
\* line's price and every order's total_amount as they were.
C5_PriceChangeKeepsOrders ==
    [][\A p \in Products, price \in Prices :
          (/\ Len(orders) > 0
           /\ p \in DOMAIN products
           /\ products[p] # price
           /\ update_product(p, price))
          => /\ products'[p] = price
             /\ order_items' = order_items
             /\ orders' = orders]_vars

\* A price was just changed and an order line of that product keeps the
\* price it was ordered at.
C5_Witness ==
    /\ resp = Response("update_product", HTTP_200_OK)
    /\ \E i \in 1..Len(order_items) :
          /\ order_items[i].product_id \in DOMAIN products
          /\ order_items[i].price # products[order_items[i].product_id]

\* C6: create_order_from_cart of a user without cart lines ends with 400
\* and creates no order and no order line.
C6_EmptyCartRejected ==
    [][\A u \in Users, d \in OrderCreate :
          (/\ { r \in cart : r.user_id = u } = {}
           /\ create_order_from_cart(u, d))
          => /\ resp' = Response("create_order_from_cart", HTTP_400_BAD_REQUEST)
             /\ orders' = orders
             /\ order_items' = order_items
             /\ cart' = cart]_vars

\* A checkout was refused with 400 while another user's cart has lines.
C6_Witness ==
    /\ resp = Response("create_order_from_cart", HTTP_400_BAD_REQUEST)
    /\ cart # {}
    /\ orders = <<>>

\* C7: on an order that is SHIPPED or DELIVERED every update_order and
\* cancel_order call fails with a client error (400 for the owner, 404 for
\* anyone else) and leaves every field of the order unchanged.
C7_ShippedIsFrozen ==
    [][\A o \in 1..Len(orders) :
          orders[o].status \in {SHIPPED, DELIVERED} =>
          \A u \in Users, d \in OrderUpdate :
          (update_order(u, o, d) \/ cancel_order(u, o))
          => /\ resp'.code = IF orders[o].user_id = u
                             THEN HTTP_400_BAD_REQUEST ELSE HTTP_404_NOT_FOUND
             /\ orders' = orders
             /\ order_items' = order_items]_vars

\* A delivered order whose owner was just refused an update or a cancel.
C7_Witness ==
    /\ resp.op \in {"update_order", "cancel_order"}
    /\ resp.code = HTTP_400_BAD_REQUEST
    /\ \E o \in 1..Len(orders) : orders[o].status = DELIVERED

C9_CancelSetsCancelled ==
    [][\A o \in 1..Len(orders) :
          (/\ orders[o].status \in {PENDING, CONFIRMED}
           /\ cancel_order(orders[o].user_id, o))
          => /\ resp' = Response("cancel_order", HTTP_200_OK)
             /\ orders' = [orders EXCEPT ![o].status = CANCELLED]
             /\ order_items' = order_items]_vars

\* An order was just cancelled and another order of the same user is not.
C9_Witness ==
    /\ resp = Response("cancel_order", HTTP_200_OK)
    /\ \E o, k \in 1..Len(orders) :
          /\ orders[o].status = CANCELLED
          /\ orders[k].status # CANCELLED
          /\ orders[k].user_id = orders[o].user_id

\* C10: in every reachable state there is at most one cart line per
\* (user, product), also when two add_to_cart calls for the same user and
\* product run in concurrent sessions.
C10_OneLinePerUserProduct ==
    \A r1, r2 \in cart :
        (r1.user_id = r2.user_id /\ r1.product_id = r2.product_id) => r1 = r2

\* C11: an add_to_cart call for an existing product leaves exactly one cart
\* line of that (user, product): with quantity q when there was none, with
\* the old quantity plus q when there was one; so two calls in a row with
\* q1 and q2 leave one line of quantity q1 + q2.  The other lines stay.
C11_RepeatedAddSums ==
    [][\A u \in Users, p \in Products, q \in Quantities :
          LET before == { r \in cart : r.user_id = u /\ r.product_id = p }
              after == { r \in cart' : r.user_id = u /\ r.product_id = p }
          IN (/\ p \in DOMAIN products
              /\ add_to_cart(u, p, q))
             => /\ Cardinality(after) = 1
                /\ before = {} => \A r \in after : r.quantity = q
                /\ \A b \in before : \A r \in after :
                      r.quantity = b.quantity + q /\ r.id = b.id
                /\ cart' \ after = cart \ before]_vars

\* A second add_to_cart has just raised a line to quantity 2, and it is the
\* only line of its user and product.
C11_Witness ==
    /\ resp = Response("add_to_cart", HTTP_200_OK)
    /\ \E r \in cart :
          /\ r.quantity = 2
          /\ \A r2 \in cart :
                (r2.user_id = r.user_id /\ r2.product_id = r.product_id) => r2 = r

\* C12: in every reachable state every cart line has a quantity of at
\* least 1, whatever add_to_cart and update_cart_item requests with valid
\* bodies were served.
C12_QuantityAtLeastOne ==
    \A r \in cart : r.quantity >= 1

\* update_cart_item has just set the quantity of a line that add_to_cart
\* had raised before; the cart holds a line.
C12_Witness ==
    /\ resp = Response("update_cart_item", HTTP_200_OK)
    /\ cart # {}
    /\ requests >= 3

\* The routes of api/order.py, served for the request that arrived.
OrderRoutes ==
    \/ route_get_cart
    \/ \E p \in Products, q \in Quantities : route_add_to_cart(p, q)
    \/ \E id \in CartIds, q \in Quantities : route_update_cart_item(id, q)
    \/ \E id \in CartIds : route_remove_from_cart(id)
    \/ \E d \in OrderCreate : route_create_order(d)
    \/ route_get_orders
    \/ \E o \in OrderIds : route_get_order(o)
    \/ \E o \in OrderIds, d \in OrderUpdate : route_update_order(o, d)
    \/ \E o \in OrderIds : route_cancel_order(o)
    \/ route_get_user_order_stats
    \/ \E status \in OrderStatusEnum \cup {"paid"}, limit \in 1..MaxOrders :
          route_get_orders_by_status(status, 0, limit)

\* The user id a token is good for at time t: its signature is the
\* server's over its own claims, its exp is ahead and its sub is a UUID;
\* NULL for any other token and for no token.
ValidFor(token, t) ==
    IF token = None THEN NULL
    ELSE IF \/ token.sig # [key |-> SECRET_KEY, over |-> Payload(token)]
            \/ token.exp <= t
            \/ token.sub.kind # "uuid"
            \/ token.email = ""
    THEN NULL
    ELSE token.sub.val

\* The token a request presents: the header's, or without a header the one
\* of a well-formed cookie.
Presented(req) ==
    IF req.credentials # None THEN req.credentials
    ELSE IF req.cookie # None /\ req.cookie.scheme = "Bearer " THEN req.cookie.token
    ELSE None

\* C13: a request of a cart or order route whose valid token names a user
\* with is_active = FALSE is rejected and changes no table.
C13_InactiveUserRejected ==
    [][(/\ Pending
        /\ ValidFor(Presented(http_request), now) \in DOMAIN users
        /\ ~users[ValidFor(Presented(http_request), now)].is_active
        /\ OrderRoutes)
       => /\ resp'.code \in {HTTP_400_BAD_REQUEST, HTTP_401_UNAUTHORIZED,
                             HTTP_403_FORBIDDEN}
          /\ UNCHANGED db]_vars

\* C14: session resolution answers 401 for every cause of failure: no
\* token, a token with a bad signature, an expired token, a token of an
\* unknown user, a token of an inactive user.
C14_UniformUnauthenticated ==
    [][(/\ Pending
        /\ \/ ValidFor(Presented(http_request), now) \notin DOMAIN users
           \/ ~users[ValidFor(Presented(http_request), now)].is_active
        /\ (OrderRoutes \/ get_current_user_profile))
       => resp'.code = HTTP_401_UNAUTHORIZED]_vars

\* C15: a request with both a bearer header and an access_token cookie is
\* resolved by the header's token alone: rejected with 401 when that token
\* is not valid for a user, whatever the cookie holds, and else served as
\* the header token's user, whose rows are the only ones it changes.
C15_HeaderTokenOnly ==
    [][(/\ Pending
        /\ http_request.credentials # None
        /\ http_request.cookie # None
        /\ OrderRoutes)
       => LET u == ValidFor(http_request.credentials, now)
          IN IF u \notin DOMAIN users
             THEN resp'.code = HTTP_401_UNAUTHORIZED /\ UNCHANGED db
             ELSE /\ resp'.code # HTTP_401_UNAUTHORIZED
                  /\ \A r \in (cart' \ cart) \cup (cart \ cart') : r.user_id = u
                  /\ \A o \in 1..Len(orders') :
                        (o > Len(orders) \/ orders'[o] # orders[o])
                            => orders'[o].user_id = u]_vars

\* A request carrying u2's token in the header and u1's in the cookie was
\* served by add_to_cart: the cart line is u2's.
C15_Witness ==
    /\ http_request.seq = requests
    /\ http_request.credentials # None
    /\ http_request.cookie # None
    /\ ValidFor(http_request.credentials, now) = "u2"
    /\ ValidFor(http_request.cookie.token, now) = "u1"
    /\ resp = Response("add_to_cart", HTTP_200_OK)
    /\ \E r \in cart : r.user_id = "u2"
    /\ \A r \in cart : r.user_id # "u1"

\* Inputs of create_access_token.
ExpiresDeltas == {NoDelta, Minutes(0), Minutes(1), Minutes(ACCESS_TOKEN_EXPIRE_MINUTES)}
IssueTimes ==
    (0 - 1)..MaxTime \cup { t - ACCESS_TOKEN_EXPIRE_MINUTES : t \in (0 - 1)..MaxTime }

\* C16: a token that create_access_token issued at time t for a user id and
\* an e-mail with an expiry (t plus the delta given, t plus
\* ACCESS_TOKEN_EXPIRE_MINUTES when none is given) verifies to that id and
\* e-mail at every time before the expiry and to None at every time after;
\* so does to None a token signed with another key, one whose claims were
\* changed after signing, one without sub or email and one whose sub is no
\* UUID.
C16_TokenValidUntilExpiry ==
    \A u \in {"u1", "u0"}, d \in ExpiresDeltas, t \in IssueTimes :
        LET email == "alice@x.io"
            token == create_access_token(u, email, d, t)
            expiry == t + (IF d.given THEN d.minutes ELSE ACCESS_TOKEN_EXPIRE_MINUTES)
        IN /\ (t <= now /\ now < expiry)
                => verify_token(token, now) = [user_id |-> u, email |-> email]
           /\ now > expiry => verify_token(token, now) = None
           /\ verify_token(Encode(Payload(token), OTHER_KEY), now) = None
           /\ verify_token([token EXCEPT !.sub = UuidStr("u2")], now) = None
           /\ verify_token(Encode([Payload(token) EXCEPT !.sub = MissingClaim],
                                  SECRET_KEY), now) = None
           /\ verify_token(Encode([Payload(token) EXCEPT !.email = ""],
                                  SECRET_KEY), now) = None
           /\ verify_token(Encode([Payload(token) EXCEPT !.sub = Text("admin")],
                                  SECRET_KEY), now) = None

\* C17: logout_user changes no table, and once the cookie is deleted a
\* request that presents a token issued before, in the header or in a
\* cookie sent again, is still resolved for as long as the token is valid.
C17_LogoutKeepsTokens ==
    [][/\ logout_user => UNCHANGED <<db, users>>
       /\ (/\ cookie_jar = None
           /\ Pending
           /\ ValidFor(Presented(http_request), now) \in DOMAIN users
           /\ OrderRoutes)
          => resp'.code # HTTP_401_UNAUTHORIZED]_vars

\* After the logout deleted the cookie, get_cart was served for a request
\* that presented u1's token.
C17_Witness ==
    /\ cookie_jar = None
    /\ http_request.seq = requests
    /\ ValidFor(Presented(http_request), now) = "u1"
    /\ resp = Response("get_cart", HTTP_200_OK)

\* C18: register_user with an e-mail that is a registered e-mail up to
\* letter case, or with a taken username, fails with a client error and
\* creates no users row.
C18_DuplicateRegistrationConflict ==
    [][\A user \in UserCreateSchemas :
          (/\ \E u \in DOMAIN users :
                 \/ Lower(users[u].email) = Lower(user.email)
                 \/ users[u].username = user.username
           /\ register_user(user))
          => /\ resp'.code = HTTP_400_BAD_REQUEST
             /\ users' = users]_vars

\* C19: login_user with an unknown e-mail or a wrong password ends with 401
\* (invalid credentials), login_user of an inactive user with 400 (inactive
\* user), never with 500; and no session cookie is set.
C19_LoginErrorsUnmodified ==
    [][\A c \in UserLoginSchemas :
          LET known == { u \in DOMAIN users :
                            /\ Lower(users[u].email) = Lower(c.email)
                            /\ users[u].password_hash = [argon2 |-> c.password] }
          IN (/\ \A u \in known : ~users[u].is_active
              /\ login_user(c))
             => /\ resp'.code = IF known = {} THEN HTTP_401_UNAUTHORIZED
                                ELSE HTTP_400_BAD_REQUEST
                /\ resp'.set_cookie = NoSetCookie
                /\ cookie_jar' = cookie_jar]_vars

\* C20: an update or delete product request of a caller who presents no
\* valid token, or the token of a user with is_admin = FALSE, is rejected
\* with 401 or 403 and leaves table products as it was.
C20_CatalogAdminOnly ==
    [][(/\ Pending
        /\ \/ ValidFor(Presented(http_request), now) \notin DOMAIN users
           \/ ~users[ValidFor(Presented(http_request), now)].is_admin
        /\ \/ \E p \in Products, price \in Prices : route_update_product(p, price)
           \/ \E p \in Products : route_delete_product(p))
       => /\ resp'.code \in {HTTP_401_UNAUTHORIZED, HTTP_403_FORBIDDEN}
          /\ products' = products]_vars

\* C22: update_cart_item and remove_from_cart called by a user with the id
\* of a cart line of another user, or with an id no line has, answer 404
\* and leave every cart line of every user as it was.
C22_CartLineScoped ==
    [][\A u \in Users, id \in CartIds :
          (\A r \in cart : r.id = id => r.user_id # u)
          => \A q \in Quantities :
                (update_cart_item(u, id, q) \/ remove_from_cart(u, id))
                => /\ resp'.code = HTTP_404_NOT_FOUND
                   /\ cart' = cart]_vars

\* Every cart id is the id of a line, lines of both users exist, and
\* update_cart_item answered 404: the caller named a line of the other
\* user (its own lines would have been found, their products exist).
C22_Witness ==
    /\ resp = Response("update_cart_item", HTTP_404_NOT_FOUND)
    /\ { r.id : r \in cart } = CartIds
    /\ \A u \in Users : CartOf(cart, u) # {}
    /\ \A r \in cart : r.product_id \in DOMAIN products

\* C26: add_to_cart for a product id that no products row has answers 404
\* and leaves the cart as it was: no line created, no quantity changed.
C26_UnknownProductRejected ==
    [][\A p \in Products :
          p \notin DOMAIN products
          => \A u \in Users, q \in Quantities :
                add_to_cart(u, p, q)
                => /\ resp'.code = HTTP_404_NOT_FOUND
                   /\ cart' = cart
                   /\ cart_seq' = cart_seq]_vars

\* A product was deleted, the cart holds a line, and add_to_cart answered
\* 404.
C26_Witness ==
    /\ resp = Response("add_to_cart", HTTP_404_NOT_FOUND)
    /\ DOMAIN products # Products
    /\ cart # {}

\* The values of limit that the route accepts (ge=1), up to the number of
\* orders.
Limits == 1..MaxOrders

\* C23: get_order_stats(user_id) answers with the numbers of that user's
\* orders: the five counts are the numbers of the user's orders in each
\* status and add up to total_orders, total_revenue is the sum of
\* total_amount over the user's DELIVERED orders, and with no order every
\* field is zero.
C23_StatsCountOwnOrders ==
    \A u \in Users :
        LET stats == get_order_stats(u)
            own == UserOrderIds(u)
            in(st) == Cardinality({ o \in own : orders[o].status = st })
            revenue[n \in 0..Len(orders)] ==
                IF n = 0 THEN 0
                ELSE revenue[n - 1] +
                     (IF n \in own /\ orders[n].status = DELIVERED
                      THEN orders[n].total_amount ELSE 0)
        IN /\ stats.status_code = HTTP_200_OK
           /\ stats.body.total_orders = Cardinality(own)
           /\ stats.body.pending_orders = in(PENDING)
           /\ stats.body.confirmed_orders = in(CONFIRMED)
           /\ stats.body.shipped_orders = in(SHIPPED)
           /\ stats.body.delivered_orders = in(DELIVERED)
           /\ stats.body.cancelled_orders = in(CANCELLED)
           /\ stats.body.pending_orders + stats.body.confirmed_orders
                + stats.body.shipped_orders + stats.body.delivered_orders
                + stats.body.cancelled_orders = stats.body.total_orders
           /\ stats.body.total_revenue = revenue[Len(orders)]

\* The reads of the orders give a user nothing of another user's orders.
OrderReadsIsolated ==
    \A u \in Users :
        /\ \A skip \in 0..MaxOrders, limit \in Limits :
              \A page \in get_user_orders(u, skip, limit) :
                 \A i \in 1..Len(page) : orders[page[i].id].user_id = u
        /\ \A o \in 1..Len(orders) :
              orders[o].user_id # u
              => get_order_by_id(u, o) = Failed(HTTP_404_NOT_FOUND)

\* C29: get_order_by_id, update_order and cancel_order called by a user
\* with the id of an order of another user answer 404, return no field of
\* the order and leave it as it was; get_user_orders returns orders of the
\* calling user only. The reads are looked at after every step that
\* changes table orders.
C29_OrdersIsolated ==
    [][/\ orders' # orders => OrderReadsIsolated'
       /\ \A o \in 1..Len(orders) :
             \A u \in Users \ {orders[o].user_id}, d \in OrderUpdate :
                (update_order(u, o, d) \/ cancel_order(u, o))
                => /\ resp' = Response(resp'.op, HTTP_404_NOT_FOUND)
                   /\ orders' = orders
                   /\ order_items' = order_items]_vars

\* Every order id is the id of an order of u1, the orders can still be
\* cancelled, and cancel_order answered 404: the caller was u2.
C29_Witness ==
    /\ resp = Response("cancel_order", HTTP_404_NOT_FOUND)
    /\ Len(orders) = MaxOrders
    /\ \A o \in 1..Len(orders) :
          orders[o].user_id = "u1" /\ orders[o].status = PENDING

\* C30: the orders-by-status request with skip = 0 and a limit that is at
\* least the number of the user's orders in the status returns exactly the
\* user's orders in that status, whatever other orders the user has.
C30_StatusListComplete ==
    \A u \in Users, status \in OrderStatusEnum, limit \in Limits :
        LET want == { o \in UserOrderIds(u) : orders[o].status = status }
        IN limit >= Cardinality(want)
           => \A out \in get_orders_by_status(u, status, 0, limit) :
                 /\ out.status_code = HTTP_200_OK
                 /\ Len(out.body) = Cardinality(want)
                 /\ { out.body[i].id : i \in 1..Len(out.body) } = want

\* C21: the global order statistics request of an authenticated user with
\* is_admin = FALSE is answered 403 and returns no statistics.
C21_GlobalStatsAdminOnly ==
    [][(/\ Pending
        /\ ValidFor(Presented(http_request), now) \in DOMAIN users
        /\ ~users[ValidFor(Presented(http_request), now)].is_admin
        /\ route_get_global_order_stats)
       => resp' = Response("get_global_order_stats", HTTP_403_FORBIDDEN)]_vars

\* C28: a DELETE request on cart/clear of an authenticated user is served
\* by clear_cart: it is answered 200, every cart line of the user is
\* deleted and no line of another user.
C28_ClearCartDispatched ==
    [][(/\ Pending
        /\ ValidFor(Presented(http_request), now) \in DOMAIN users
        /\ route_delete_cart_clear)
       => /\ resp' = Response("clear_cart", HTTP_200_OK)
          /\ cart' = cart \ CartOf(cart, ValidFor(Presented(http_request), now))]_vars

\* C24: a product list answered for total rows, size >= 1 and page >= 1
\* has pages = ceil(total / size), has_next = (page < pages), has_prev =
\* (page > 1) and min(size, max(0, total - (page - 1) * size)) items; page
\* 2 of size 10 over 25 products has 10 items, 3 pages, has_next and
\* has_prev.
C24_Pagination ==
    listing.response.status_code = HTTP_200_OK
    => LET body == listing.response.body
           page == listing.request.page
           size == listing.request.size
           total == Cardinality({ id \in DOMAIN products :
                       listing.request.min_price.given
                          => products[id] >= listing.request.min_price.value })
           rest == total - (page - 1) * size
       IN /\ body.total = total
          /\ body.pages >= 0
          /\ body.pages * size >= total
          /\ (body.pages - 1) * size < total
          /\ body.has_next = (page < body.pages)
          /\ body.has_prev = (page > 1)
          /\ Len(body.items) =
                (IF rest < 0 THEN 0 ELSE IF rest < size THEN rest ELSE size)
          /\ (total = 25 /\ size = 10 /\ page = 2)
                => /\ Len(body.items) = 10
                   /\ body.pages = 3
                   /\ body.has_next
                   /\ body.has_prev

\* Page 2 of size 10 over 25 products was answered.
C24_Witness ==
    /\ listing.response.status_code = HTTP_200_OK
    /\ Cardinality(DOMAIN products) = 25
    /\ listing.request.page = 2
    /\ listing.request.size = 10
    /\ ~listing.request.min_price.given
    /\ Len(listing.response.body.items) = 10
    /\ listing.response.body.pages = 3

\* C25: a product list request with a sort key outside the allow-list, or
\* a sort order that is neither asc nor desc, is answered with a client
\* error and no product list.
C25_InvalidSortRejected ==
    (/\ listing.request # None
     /\ \/ listing.request.sort_by \notin
              {"name", "price", "rating", "created_at", "average_rating",
               "total_reviews"}
        \/ listing.request.sort_order \notin {"asc", "desc"})
    => /\ listing.response.status_code \in 400..499
       /\ listing.response.body = None

\* A request for the products sorted by popularity over a catalogue with
\* rows was answered 400.
C25_Witness ==
    /\ listing.request # None
    /\ listing.request.sort_by = "popularity"
    /\ listing.request.sort_order = "asc"
    /\ listing.request.page = 1
    /\ listing.request.size >= 1
    /\ DOMAIN products # {}
    /\ listing.response = Failed(HTTP_400_BAD_REQUEST)

\* C27: the items of a product list answered for an accepted sort key are
\* ordered by that key in the direction asked for; for the key rating, by
\* the rating of the products.
C27_SortedByKey ==
    listing.response.status_code = HTTP_200_OK
    => LET items == listing.response.body.items
           key == IF listing.request.sort_by = "rating" THEN "average_rating"
                  ELSE listing.request.sort_by
       IN \A i, j \in 1..Len(items) :
             i < j => IF listing.request.sort_order = "asc"
                      THEN items[i][key] <= items[j][key]
                      ELSE items[i][key] >= items[j][key]

====
